---- MODULE Spec2Model ----
(***************************************************************************)
(* A model of pydriller's core:                                            *)
(*   - GitRepository.parse_diff / _get_line_numbers      (SpecDiff)        *)
(*   - GitRepository.get_commits_last_modified_lines     (SpecAttr)        *)
(*   - RepositoryMining.traverse_commits and its filters (Spec)            *)
(*   - GitRepository.checkout / reset / files by threads (SpecLock)        *)
(* Python strings are sequences of one-character strings, so that split,   *)
(* strip, startswith, endswith and int() are computed, not assumed.        *)
(***************************************************************************)
EXTENDS Integers, Sequences, FiniteSets, TLC

VARIABLES
    \* ---- parse_diff (one call, one step per line of the loop)
    d_src,      \* the hunks the diff text was rendered from (ghost)
    d_text,     \* the argument `diff`
    d_lines,    \* `lines`
    d_idx,      \* number of lines of `lines` already consumed by the loop
    d_st,       \* modified_lines, count_deletions, count_additions, raised error
    d_pc,       \* "idle" | "call" | "loop" | "done" | "raised"
    \* ---- get_commits_last_modified_lines (one call)
    a_in,       \* the arguments: commit, modification(s), hyper_blame, path
    a_ignore,   \* hashes_to_ignore
    a_mods,     \* `modifications`
    a_i,        \* number of modifications already consumed by the loop
    a_commits,  \* `commits`, the Attribution Map being built
    a_err,      \* "none" or the exception that left the call
    a_log,      \* per consumed modification: the blame request made (ghost)
    a_out,      \* per consumed modification: what the blame provider answered (ghost)
    a_stored,   \* per consumed modification: the (key, hash) pairs it stored (ghost)
    a_pc,       \* "idle" | "call" | "loop" | "done" | "raised"
    \* ---- RepositoryMining.traverse_commits (one generator)
    m_paths,    \* `_path_to_repo`, a list of repository locations
    m_args,     \* the filter arguments given to __init__ (never assigned again)
    m_self,     \* the fields a traversal assigns: _since, _to, _filepath_commits,
                \* _tagged_commits
    m_repo,     \* how many repositories of the list the loop has entered
    m_pos,      \* number of commits of the current enumeration already consumed
    m_yielded,  \* the stream so far: <<index of the repository, hash>> (ghost)
    m_err,      \* "none" or the exception that left the generator
    m_reads,    \* number of commit objects read from the repositories (ghost)
    m_pc,       \* "idle" | "next_repo" | "stream" | "done" | "raised" | "abandoned"
    m_tmp_folder, \* the indexes of the locations whose clone, in the
                \* TemporaryDirectory bound to `tmp_folder`, exists
    \* ---- checkout / reset / files on one GitRepository shared by threads
    k_th,       \* per thread: where it is in its call, the hash it checks out,
                \* the calls it has made, the directories its walk has been through
    k_lock,     \* self.lock: 0 when free, else the thread that holds it
    k_branch,   \* the active branch of the repository
    k_tmp,      \* whether the branch _PD exists
    k_tree      \* what the working tree holds: the main branch or a commit

dvars == <<d_src, d_text, d_lines, d_idx, d_st, d_pc>>
avars == <<a_in, a_ignore, a_mods, a_i, a_commits, a_err, a_log, a_out, a_stored, a_pc>>
mvars == <<m_paths, m_args, m_self, m_repo, m_pos, m_yielded, m_err, m_reads, m_pc,
           m_tmp_folder>>
kvars == <<k_th, k_lock, k_branch, k_tmp, k_tree>>
vars == <<dvars, avars, mvars, kvars>>

\* ------------------------------------------------------------------------
\* Bounds of the model
\* ------------------------------------------------------------------------
MaxBody == 3        \* lines in the body of the first hunk of a rendered diff

\* ------------------------------------------------------------------------
\* Python str operations on sequences of characters
\* ------------------------------------------------------------------------
NoValue == "None"

\* an optional list: None, or the list v
NoList == [some |-> FALSE, v |-> <<>>]

SomeList(l) == [some |-> TRUE, v |-> l]

Whitespace == {" ", "\t", "\n", "\r"}

Digits == <<"0", "1", "2", "3", "4", "5", "6", "7", "8", "9">>

IsDigit(c) == \E k \in 1..10 : Digits[k] = c

DigitVal(c) == (CHOOSE k \in 1..10 : Digits[k] = c) - 1

StartsWith(s, p) == Len(s) >= Len(p) /\ SubSeq(s, 1, Len(p)) = p

EndsWith(s, p) == Len(s) >= Len(p) /\ SubSeq(s, Len(s) - Len(p) + 1, Len(s)) = p

RECURSIVE RStrip(_)
RStrip(s) ==
    IF s # <<>> /\ s[Len(s)] \in Whitespace THEN RStrip(SubSeq(s, 1, Len(s) - 1)) ELSE s

RECURSIVE LStrip(_)
LStrip(s) == IF s # <<>> /\ Head(s) \in Whitespace THEN LStrip(Tail(s)) ELSE s

Strip(s) == LStrip(RStrip(s))

\* s.split(sep) for a one-character separator
RECURSIVE Split(_, _)
Split(s, sep) ==
    IF \A k \in 1..Len(s) : s[k] # sep
    THEN <<s>>
    ELSE LET i == CHOOSE k \in 1..Len(s) : s[k] = sep /\ \A j \in 1..(k - 1) : s[j] # sep
         IN  <<SubSeq(s, 1, i - 1)>> \o Split(SubSeq(s, i + 1, Len(s)), sep)

\* s.replace(c, "")
Remove(s, c) == SelectSeq(s, LAMBDA x : x # c)

RECURSIVE DigitsValue(_)
DigitsValue(s) ==
    IF s = <<>> THEN 0 ELSE 10 * DigitsValue(SubSeq(s, 1, Len(s) - 1)) + DigitVal(s[Len(s)])

\* int(s): surrounding whitespace, an optional sign, at least one digit
ParseInt(s) ==
    LET t == Strip(s)
        signed == t # <<>> /\ Head(t) \in {"+", "-"}
        body == IF signed THEN Tail(t) ELSE t
        ok == body # <<>> /\ \A k \in 1..Len(body) : IsDigit(body[k])
    IN  IF ~ok THEN [ok |-> FALSE, val |-> 0]
        ELSE [ok |-> TRUE,
              val |-> IF signed /\ Head(t) = "-" THEN 0 - DigitsValue(body)
                      ELSE DigitsValue(body)]

\* str(n) for n >= 0
RECURSIVE Str(_)
Str(n) == IF n < 10 THEN <<Digits[n + 1]>> ELSE Str(n \div 10) \o <<Digits[(n % 10) + 1]>>

RECURSIVE Join(_, _)
Join(ls, sep) ==
    IF ls = <<>> THEN <<>>
    ELSE IF Len(ls) = 1 THEN ls[1]
    ELSE ls[1] \o <<sep>> \o Join(Tail(ls), sep)

\* seq[i] with Python's 0-based index and its wrap-around for negative i
PyInRange(seq, i) == (0 - Len(seq)) <= i /\ i < Len(seq)

PyIndex(seq, i) == IF i >= 0 THEN seq[i + 1] ELSE seq[Len(seq) + i + 1]

\* ------------------------------------------------------------------------
\* GitRepository.parse_diff
\* ------------------------------------------------------------------------
NoNewlineMarker ==
    <<"\\", " ", "N", "o", " ", "n", "e", "w", "l", "i", "n", "e", " ", "a", "t", " ",
      "e", "n", "d", " ", "o", "f", " ", "f", "i", "l", "e">>

\* _get_line_numbers: token[1] and token[2] of the header, each an int() of
\* what precedes its comma
GetLineNumbers(line) ==
    LET token == Split(line, " ")
    IN  IF Len(token) < 3
        THEN [err |-> "IndexError", del |-> 0, add |-> 0]
        ELSE LET old == ParseInt(Remove(Split(token[2], ",")[1], "-"))
                 new == ParseInt(Split(token[3], ",")[1])
             IN  IF ~old.ok \/ ~new.ok
                 THEN [err |-> "ValueError", del |-> 0, add |-> 0]
                 ELSE [err |-> "none", del |-> old.val - 1, add |-> new.val - 1]

ParseStart == [deleted |-> <<>>, added |-> <<>>, cd |-> 0, ca |-> 0, err |-> "none"]

\* count_deletions += 1; count_additions += 1
Counted(st) == [st EXCEPT !.cd = @ + 1, !.ca = @ + 1]

\* if line.startswith('@@'): the counters are those of the header
OnHeader(st, line, nums) ==
    IF ~StartsWith(line, <<"@", "@">>) THEN st
    ELSE IF nums.err # "none" THEN [st EXCEPT !.err = nums.err]
    ELSE [st EXCEPT !.cd = nums.del, !.ca = nums.add]

\* if line.startswith('-')
OnMinus(st, line) ==
    IF st.err = "none" /\ StartsWith(line, <<"-">>)
    THEN [st EXCEPT !.deleted = Append(@, <<st.cd, Tail(line)>>), !.ca = @ - 1]
    ELSE st

\* if line.startswith('+')
OnPlus(st, line) ==
    IF st.err = "none" /\ StartsWith(line, <<"+">>)
    THEN [st EXCEPT !.added = Append(@, <<st.ca, Tail(line)>>), !.cd = @ - 1]
    ELSE st

\* the marker line leaves the counters where the increment put them
OnMarkerKeepCounts(st, line) == st

\* if line == r'\ No newline at end of file'
OnMarker(st, line) ==
    IF st.err = "none" /\ line = NoNewlineMarker
    THEN [st EXCEPT !.cd = @ - 1, !.ca = @ - 1]
    ELSE st

\* One iteration of the loop of parse_diff over the stripped `line`
ParseStripped(st, line) ==
    OnMarker(OnPlus(OnMinus(OnHeader(Counted(st), line, GetLineNumbers(line)), line), line),
             line)

\* One iteration of the loop of parse_diff over `raw`, from the state `st`
ParseLine(st, raw) == ParseStripped(st, RStrip(raw))

\* parse_diff as a function: the loop folded over diff.split('\n')
RECURSIVE ParseLines(_, _)
ParseLines(st, ls) ==
    IF ls = <<>> \/ st.err # "none" THEN st ELSE ParseLines(ParseLine(st, Head(ls)), Tail(ls))

ParseDiff(diff) == ParseLines(ParseStart, Split(diff, "\n"))

\* ------------------------------------------------------------------------
\* Unified diffs as git renders them (the hunks-only text of Modification.diff)
\* ------------------------------------------------------------------------
BodyLines ==
    { [kind |-> "ctx", text |-> <<"a">>],
      [kind |-> "ctx", text |-> <<>>],
      [kind |-> "del", text |-> <<"b">>],
      [kind |-> "del", text |-> <<"-", "x", " ">>],
      [kind |-> "add", text |-> <<"c">>],
      [kind |-> "add", text |-> <<"+", "@", "@">>],
      [kind |-> "nonl", text |-> <<>>] }

RECURSIVE SeqsUpTo(_, _)
SeqsUpTo(S, n) ==
    IF n = 0 THEN {<<>>}
    ELSE LET shorter == SeqsUpTo(S, n - 1)
         IN  shorter \cup {Append(s, x) : s \in shorter, x \in S}

CountKind(body, kinds) == Len(SelectSeq(body, LAMBDA l : l.kind \in kinds))

\* "start" when the count is 1, "start,count" otherwise
RangeField(start, count) ==
    IF count = 1 THEN Str(start) ELSE Str(start) \o <<",">> \o Str(count)

HunkHeader(h) ==
    <<"@", "@", " ", "-">> \o RangeField(h.old, CountKind(h.body, {"ctx", "del"}))
        \o <<" ", "+">> \o RangeField(h.new, CountKind(h.body, {"ctx", "add"}))
        \o <<" ", "@", "@">> \o h.section

BodyLine(l) ==
    CASE l.kind = "ctx" -> <<" ">> \o l.text
      [] l.kind = "del" -> <<"-">> \o l.text
      [] l.kind = "add" -> <<"+">> \o l.text
      [] OTHER -> NoNewlineMarker

HunkLines(h) == <<HunkHeader(h)>> \o [k \in 1..Len(h.body) |-> BodyLine(h.body[k])]

RECURSIVE DiffLines(_)
DiffLines(hs) == IF hs = <<>> THEN <<>> ELSE HunkLines(Head(hs)) \o DiffLines(Tail(hs))

\* the text of a diff: its lines, each ended by a line feed when `eol`
Render(hs, eol) ==
    IF hs = <<>> THEN <<>>
    ELSE Join(DiffLines(hs), "\n") \o (IF eol THEN <<"\n">> ELSE <<>>)

FirstHunks ==
    { [old |-> p[1], new |-> p[2], section |-> p[3], body |-> b] :
        p \in { <<1, 1, <<>>>>, <<12, 10, <<" ", "d", "e", "f", " ", "-", "1">>>> },
        b \in SeqsUpTo(BodyLines, MaxBody) \ {<<>>} }

LaterHunks ==
    { [old |-> 20, new |-> 21, section |-> <<>>,
       body |-> << [kind |-> "del", text |-> <<"d">>], [kind |-> "ctx", text |-> <<"e">>],
                   [kind |-> "add", text |-> <<"f">>], [kind |-> "del", text |-> <<"g">>] >>],
      [old |-> 30, new |-> 29, section |-> <<>>,
       body |-> << [kind |-> "add", text |-> <<"h">>], [kind |-> "nonl", text |-> <<>>] >>] }

DiffSources ==
    {<<>>} \cup {<<h>> : h \in FirstHunks} \cup {<<h, g>> : h \in FirstHunks, g \in LaterHunks}

\* ------------------------------------------------------------------------
\* The state of each part of the model while another part runs
\* ------------------------------------------------------------------------
NoArgs ==
    [ single |-> NoValue, since |-> <<>>, to |-> <<>>, from_commit |-> NoValue,
      to_commit |-> NoValue, from_tag |-> NoValue, to_tag |-> NoValue,
      reversed_order |-> FALSE, only_in_branch |-> NoValue,
      only_modifications_with_file_types |-> NoList, only_no_merge |-> FALSE,
      only_authors |-> NoList, only_commits |-> NoList, only_releases |-> FALSE,
      filepath |-> NoValue ]

\* __init__: the fields a traversal assigns start as the arguments, the two
\* lists as None
SelfOf(args) ==
    [since |-> args.since, to |-> args.to, filepath_commits |-> NoList,
     tagged_commits |-> {NoValue}]

MiningIdle ==
    /\ m_paths = <<>> /\ m_args = NoArgs /\ m_self = SelfOf(NoArgs)
    /\ m_repo = 0 /\ m_pos = 0 /\ m_yielded = <<>> /\ m_err = "none" /\ m_reads = 0
    /\ m_pc = "idle" /\ m_tmp_folder = {}

\* ------------------------------------------------------------------------
\* The call parse_diff(diff), one step per line
\* ------------------------------------------------------------------------
MainBranch == "master"

TmpBranch == "_PD"

LockIdle ==
    /\ k_th = <<>> /\ k_lock = 0 /\ k_branch = MainBranch /\ k_tmp = FALSE
    /\ k_tree = MainBranch

DiffIdle ==
    /\ d_src = <<>> /\ d_text = <<>> /\ d_lines = <<>> /\ d_idx = 0
    /\ d_st = ParseStart /\ d_pc = "idle"

AttrIdle ==
    /\ a_in = [commit |-> NoValue, commit_mods |-> <<>>, modification |-> <<>>,
               hyper_blame |-> FALSE, hashes_to_ignore_path |-> NoValue]
    /\ a_ignore = [some |-> FALSE, v |-> <<>>] /\ a_mods = <<>> /\ a_i = 0
    /\ a_commits = [p \in {} |-> {}] /\ a_err = "none" /\ a_log = <<>> /\ a_out = <<>>
    /\ a_stored = <<>> /\ a_pc = "idle"

InitDiff ==
    /\ d_src \in DiffSources
    /\ \E eol \in BOOLEAN : d_text = Render(d_src, eol)
    /\ d_lines = <<>> /\ d_idx = 0 /\ d_st = ParseStart /\ d_pc = "call"
    /\ AttrIdle /\ MiningIdle /\ LockIdle

\* lines = diff.split('\n'); the lists and the counters start empty and at 0
ParseDiffBegin ==
    /\ d_pc = "call"
    /\ d_lines' = Split(d_text, "\n")
    /\ d_idx' = 0
    /\ d_st' = ParseStart
    /\ d_pc' = "loop"
    /\ UNCHANGED <<d_src, d_text, avars, mvars, kvars>>

\* one iteration of `for line in lines`
ParseDiffLine ==
    /\ d_pc = "loop"
    /\ d_idx < Len(d_lines)
    /\ LET st == ParseLine(d_st, d_lines[d_idx + 1])
       IN  /\ d_st' = st
           /\ d_pc' = IF st.err # "none" THEN "raised" ELSE "loop"
    /\ d_idx' = d_idx + 1
    /\ UNCHANGED <<d_src, d_text, d_lines, avars, mvars, kvars>>

\* return modified_lines
ParseDiffReturn ==
    /\ d_pc = "loop"
    /\ d_idx = Len(d_lines)
    /\ d_pc' = "done"
    /\ UNCHANGED <<d_src, d_text, d_lines, d_idx, d_st, avars, mvars, kvars>>

NextDiff == ParseDiffBegin \/ ParseDiffLine \/ ParseDiffReturn

SpecDiff == InitDiff /\ [][NextDiff]_vars

\* ------------------------------------------------------------------------
\* GitRepository.get_commits_last_modified_lines / _calculate_last_commits
\* ------------------------------------------------------------------------
\* dict.setdefault(k, set()).add(h) on a dict kept as a function
EmptyMap == [p \in {} |-> {}]

MapAdd(m, k, h) ==
    [p \in (DOMAIN m) \cup {k} |->
        IF p = k THEN (IF k \in DOMAIN m THEN m[k] ELSE {}) \cup {h} ELSE m[p]]

\* an optional list: None, or the list
\* hyper_blame is left only when the list of hashes is empty too
GetBlameNeedsHashes(commit_hash, path, hyper_blame, hashes_to_ignore) ==
    IF ~hyper_blame \/ ~hashes_to_ignore.some \/ hashes_to_ignore.v = <<>>
    THEN [kind |-> "blame", rev |-> <<commit_hash, "^">>, path |-> path, ignore |-> <<>>]
    ELSE [kind |-> "hyper_blame", rev |-> <<commit_hash, "^">>, path |-> path,
          ignore |-> hashes_to_ignore.v]

\* _get_blame: the request it sends to the blame provider
GetBlame(commit_hash, path, hyper_blame, hashes_to_ignore) ==
    IF ~hyper_blame \/ ~hashes_to_ignore.some
    THEN [kind |-> "blame", rev |-> <<commit_hash, "^">>, path |-> path, ignore |-> <<>>]
    ELSE [kind |-> "hyper_blame", rev |-> <<commit_hash, "^">>, path |-> path,
          ignore |-> hashes_to_ignore.v]

NoRequest == [kind |-> "none", rev |-> <<>>, path |-> NoValue, ignore |-> <<>>]

\* the check of a leading '*' is missing
UselessLineNoStar(line) ==
    \/ line = <<>>
    \/ StartsWith(line, <<"/", "/">>)
    \/ StartsWith(line, <<"#">>)
    \/ StartsWith(line, <<"/", "*">>)
    \/ StartsWith(line, <<"'", "'", "'">>)
    \/ StartsWith(line, <<"\"", "\"", "\"">>)

\* _useless_line
UselessLine(line) ==
    \/ line = <<>>
    \/ StartsWith(line, <<"/", "/">>)
    \/ StartsWith(line, <<"#">>)
    \/ StartsWith(line, <<"/", "*">>)
    \/ StartsWith(line, <<"'", "'", "'">>)
    \/ StartsWith(line, <<"\"", "\"", "\"">>)
    \/ StartsWith(line, <<"*">>)

\* the path handed to _get_blame
BlamePath(mod) ==
    IF mod.change_type = "RENAME" \/ mod.change_type = "DELETE"
    THEN mod.old_path ELSE mod.new_path

\* the key stays the blamed path
KeyPathBlamed(mod, path) == path

\* the key of commits.setdefault, `path` being the blamed path
KeyPath(mod, path) == IF mod.change_type = "RENAME" THEN mod.new_path ELSE path

\* no exception of the blame lookup is caught
CaughtNothing(exc) == FALSE

\* the except clause of the loop body
Caught(exc) == exc = "GitCommandError"

\* self.get_commit(id).hash: the commits the repository can resolve
KnownIds == { <<"h", "1">>, <<"h", "2">>, <<"h", "3">> }

CommitHash(id) ==
    CASE id = <<"h", "1">> -> "h1000000"
      [] id = <<"h", "2">> -> "h2000000"
      [] id = <<"h", "3">> -> "h3000000"

\* the loop over deleted_lines, from the accumulator `acc`; useless[k] is
\* _useless_line(line.strip()) of the k-th line left
RECURSIVE BlameLines(_, _, _, _, _)
BlameLines(acc, lines, useless, mod, blame) ==
    IF lines = <<>> \/ acc.err # "none" THEN acc
    ELSE LET num_line == Head(lines)[1]
             key == KeyPath(mod, BlamePath(mod))
         IN  IF Head(useless)
             THEN BlameLines(acc, Tail(lines), Tail(useless), mod, blame)
             ELSE IF ~PyInRange(blame, num_line - 1)
             THEN [acc EXCEPT !.err = "IndexError"]
             ELSE LET buggy_commit ==
                          Remove(Split(PyIndex(blame, num_line - 1), " ")[1], "^")
                  IN  IF buggy_commit \notin KnownIds
                      THEN [acc EXCEPT !.err = "BadName"]
                      ELSE BlameLines(
                               [acc EXCEPT
                                   !.commits = MapAdd(@, key, CommitHash(buggy_commit)),
                                   !.stored = @ \cup {<<key, CommitHash(buggy_commit)>>}],
                               Tail(lines), Tail(useless), mod, blame)

\* _useless_line(line.strip()) of each deleted line
UselessFlags(deleted_lines) ==
    [k \in 1..Len(deleted_lines) |-> UselessLine(Strip(deleted_lines[k][2]))]

\* the try block of `for mod in modifications`: `out` is what the blame
\* provider does with the request
ModStepOn(commits, mod, deleted_lines, useless, out) ==
    IF out.exc # "none"
    THEN [commits |-> commits, stored |-> {},
          err |-> IF Caught(out.exc) THEN "none" ELSE out.exc]
    ELSE BlameLines([commits |-> commits, err |-> "none", stored |-> {}],
                    deleted_lines, useless, mod, out.blame)

\* the body of `for mod in modifications`, `parsed` being parse_diff(mod.diff):
\* an error of parse_diff leaves the call before the blame is asked for
ModStepParsed(commits, mod, parsed, out) ==
    IF parsed.err # "none"
    THEN [commits |-> commits, err |-> parsed.err, stored |-> {}]
    ELSE ModStepOn(commits, mod, parsed.deleted, UselessFlags(parsed.deleted), out)

\* the body of `for mod in modifications`
ModStep(commits, mod, out) == ModStepParsed(commits, mod, ParseDiff(mod.diff), out)

\* ------------------------------------------------------------------------
\* The inputs of an attribution call
\* ------------------------------------------------------------------------
MaxMods == 2        \* modifications of the analysed commit

Hunk(old, new, body) == [old |-> old, new |-> new, section |-> <<>>, body |-> body]

Ctx(t) == [kind |-> "ctx", text |-> t]

Del(t) == [kind |-> "del", text |-> t]

Add(t) == [kind |-> "add", text |-> t]

Modification(old_path, new_path, change_type, diff) ==
    [old_path |-> old_path, new_path |-> new_path, change_type |-> change_type,
     diff |-> diff]

\* "@@ -1,3 +1,2 @@\n a\n-b\n c"
ModModify ==
    Modification("a.py", "a.py", "MODIFY",
        Render(<<Hunk(1, 1, <<Ctx(<<"a">>), Del(<<"b">>), Ctx(<<"c">>)>>)>>, FALSE))

ModRename ==
    Modification("old.py", "new.py", "RENAME",
        Render(<<Hunk(1, 1, <<Del(<<"x">>), Add(<<"y">>), Ctx(<<"z">>)>>)>>, TRUE))

\* deletes "# c" (line 1) and "k" (line 2)
ModDelete ==
    Modification("gone.py", NoValue, "DELETE",
        Render(<<Hunk(1, 0, <<Del(<<"#", " ", "c">>), Del(<<"k">>)>>)>>, TRUE))

ModAdd ==
    Modification(NoValue, "add.py", "ADD", Render(<<Hunk(0, 1, <<Add(<<"n">>)>>)>>, TRUE))

ModCopy ==
    Modification("a.py", "copy.py", "COPY",
        Render(<<Hunk(2, 2, <<Del(<<"/", " ", "x">>), Add(<<"w">>)>>)>>, FALSE))

\* every deleted line is empty or a comment; the last ones lie beyond line 1
ModUseless ==
    Modification("u.py", "u.py", "MODIFY",
        Render(<<Hunk(1, 1, <<Del(<<" ", " ">>), Del(<<" ", "/", "/", "y">>),
                              Del(<<"*", " ", "s">>), Del(<<"'", "'", "'", "x">>),
                              Del(<<"\"", "\"", "\"">>), Del(<<"\t", "/", "*">>),
                              Del(<<"#">>)>>)>>, TRUE))

\* comment look-alikes that are code ("''", "x#") around a comment, then line 3
ModMixed ==
    Modification("mix.py", "mix.py", "MODIFY",
        Render(<<Hunk(1, 1, <<Del(<<"'", "'">>), Del(<<"*">>), Ctx(<<"q">>)>>),
                 Hunk(3, 2, <<Del(<<"x", "#">>)>>)>>, TRUE))

\* "@@ -x,3 +1,2 @@\n-b": a line field that is no number
ModBadNumber ==
    Modification("bad.py", "bad.py", "MODIFY",
        <<"@", "@", " ", "-", "x", ",", "3", " ", "+", "1", ",", "2", " ", "@", "@",
          "\n", "-", "b">>)

\* "@@ -1,3\n-b": the new-file field is missing
ModBadMissing ==
    Modification("cut.py", "cut.py", "MODIFY",
        <<"@", "@", " ", "-", "1", ",", "3", "\n", "-", "b">>)

Modifications ==
    { ModModify, ModRename, ModDelete, ModAdd, ModCopy, ModUseless, ModMixed,
      ModBadNumber, ModBadMissing }

\* the files hashes_to_ignore_path may name, as readlines() returns them
IgnoreFiles == {"empty.txt", "ignore.txt"}

ReadLines(path) == IF path = "empty.txt" THEN <<>> ELSE <<"h1000000\n", "h2000000\n">>

\* what the blame provider may do with a request: fail to find the file at the
\* parent, or return a table, one line per line of the file
BlameTable ==
    << <<"h", "1", " ", "1", ")", " ", "a">>,
       <<"^", "h", "2", " ", "2", ")", " ", "b">>,
       <<"z", "z", " ", "3", ")", " ", "c">> >>

ShortBlameTable == << <<"h", "3", " ", "1", ")">> >>

BlameOutcomes ==
    { [exc |-> "GitCommandError", blame |-> <<>>],
      [exc |-> "none", blame |-> BlameTable],
      [exc |-> "none", blame |-> ShortBlameTable] }

AnalysedCommit == "c9"

AttrArgs ==
    { [commit |-> AnalysedCommit, commit_mods |-> ms, modification |-> <<>>,
       hyper_blame |-> hb, hashes_to_ignore_path |-> ip] :
         ms \in SeqsUpTo(Modifications, MaxMods), hb \in BOOLEAN,
         ip \in {NoValue} \cup IgnoreFiles }
    \cup
    { [commit |-> AnalysedCommit, commit_mods |-> <<m>>, modification |-> <<m>>,
       hyper_blame |-> hb, hashes_to_ignore_path |-> ip] :
         m \in Modifications, hb \in BOOLEAN, ip \in {NoValue} \cup IgnoreFiles }

InitAttr ==
    /\ DiffIdle /\ MiningIdle /\ LockIdle
    /\ a_in \in AttrArgs
    /\ a_ignore = NoList /\ a_mods = <<>> /\ a_i = 0
    /\ a_commits = EmptyMap /\ a_err = "none" /\ a_log = <<>> /\ a_out = <<>>
    /\ a_stored = <<>> /\ a_pc = "call"

\* get_commits_last_modified_lines up to the call of _calculate_last_commits
\* (`modification` is <<>> for None, <<m>> for m; the ignore file exists)
AttrBegin ==
    /\ a_pc = "call"
    /\ a_ignore' = IF a_in.hashes_to_ignore_path # NoValue
                   THEN SomeList(ReadLines(a_in.hashes_to_ignore_path))
                   ELSE SomeList(<<>>)
    /\ a_mods' = IF a_in.modification # <<>> THEN a_in.modification ELSE a_in.commit_mods
    /\ a_commits' = EmptyMap
    /\ a_i' = 0
    /\ a_pc' = "loop"
    /\ UNCHANGED <<a_in, a_err, a_log, a_out, a_stored, dvars, mvars, kvars>>

\* one iteration of `for mod in modifications`; the diff is parsed before the
\* blame is asked for, so a diff that does not parse sends no request
AttrMod ==
    /\ a_pc = "loop"
    /\ a_i < Len(a_mods)
    /\ \E out \in BlameOutcomes :
        LET mod == a_mods[a_i + 1]
            parses == ParseDiff(mod.diff).err = "none"
            r == ModStep(a_commits, mod, out)
        IN  /\ a_commits' = r.commits
            /\ a_err' = r.err
            /\ a_stored' = Append(a_stored, r.stored)
            /\ a_log' = Append(a_log,
                   IF parses
                   THEN GetBlame(a_in.commit, BlamePath(mod), a_in.hyper_blame, a_ignore)
                   ELSE NoRequest)
            /\ a_out' = Append(a_out, IF parses THEN out ELSE [exc |-> "unasked", blame |-> <<>>])
            /\ a_pc' = IF r.err # "none" THEN "raised" ELSE "loop"
    /\ a_i' = a_i + 1
    /\ UNCHANGED <<a_in, a_ignore, a_mods, dvars, mvars, kvars>>

\* return commits
AttrReturn ==
    /\ a_pc = "loop"
    /\ a_i = Len(a_mods)
    /\ a_pc' = "done"
    /\ UNCHANGED <<a_in, a_ignore, a_mods, a_i, a_commits, a_err, a_log, a_out,
                   a_stored, dvars, mvars, kvars>>

NextAttr == AttrBegin \/ AttrMod \/ AttrReturn

SpecAttr == InitAttr /\ [][NextAttr]_vars

\* ------------------------------------------------------------------------
\* datetime: a wall-clock hour and a tzinfo, {} (naive) or {utc offset}
\* ------------------------------------------------------------------------
Naive(w) == [wall |-> w, tz |-> {}]

Aware(w, off) == [wall |-> w, tz |-> {off}]

\* the instant an aware datetime denotes; comparing datetimes compares these
Instant(dt) == dt.wall - (CHOOSE off \in dt.tz : TRUE)

\* the naive datetime is read in a local zone, one hour east of UTC
ReplaceTimezoneLocal(dt) == IF dt.tz = {} THEN [dt EXCEPT !.tz = {1}] ELSE dt

\* _replace_timezone
ReplaceTimezone(dt) == IF dt.tz = {} THEN [dt EXCEPT !.tz = {0}] ELSE dt

\* ------------------------------------------------------------------------
\* The repositories a traversal may be pointed at
\* ------------------------------------------------------------------------
Commit(hash, date, author, merge, filenames) ==
    [hash |-> hash, committer_date |-> date, author |-> author, merge |-> merge,
     filenames |-> filenames]

PyFile == <<"m", ".", "p", "y">>

PyFileRenamed == <<"x", ".", "p", "y">>

TextFile == <<"r", ".", "m", "d">>

A1 == Commit("a1", Aware(1, 0), "alice", FALSE, <<PyFile>>)

A2 == Commit("a2", Aware(3, 1), "bob", FALSE, <<TextFile>>)

A3 == Commit("a3", Aware(3, 0), "alice", TRUE, <<>>)

A4 == Commit("a4", Aware(2, -2), "alice", FALSE, <<TextFile, PyFileRenamed>>)

B1 == Commit("b1", Aware(2, 0), "alice", FALSE, <<PyFile>>)

B2 == Commit("b2", Aware(5, 0), "carol", FALSE, <<TextFile>>)

\* two local repositories and a remote one, whose clone has the history of
\* /repos/b (as every location but /repos/a has)
RemoteUrl == "https://host/b.git"

Repos == {"/repos/a", "/repos/b", RemoteUrl}

\* the characters a location starts with
Prefix(repo) ==
    IF repo = RemoteUrl THEN <<"h", "t", "t", "p", "s", ":", "/", "/", "h">>
    ELSE <<"/", "r", "e", "p", "o", "s", "/">>

\* _is_remote
IsRemote(repo) ==
    \/ StartsWith(Prefix(repo), <<"g", "i", "t", "@">>)
    \/ StartsWith(Prefix(repo), <<"h", "t", "t", "p", "s", ":", "/", "/">>)

\* _clone_remote_repos: the folder of the clone, in the temporary directory
CloneRemoteRepos(repo) == "/tmp/tmpdir/b"

\* the path the GitRepository of a location is opened on
GitRepoPath(repo) == IF IsRemote(repo) THEN CloneRemoteRepos(repo) ELSE repo

\* repo.iter_commits(branch): newest first; branch None is the checked-out one
IterCommits(repo, branch) ==
    IF repo = "/repos/a"
    THEN (IF branch = NoValue THEN <<A4, A3, A2, A1>> ELSE <<A2, A1>>)
    ELSE (IF branch = NoValue THEN <<B2, B1>> ELSE <<B1>>)

AllCommits(repo) == {IterCommits(repo, NoValue)[k] : k \in 1..Len(IterCommits(repo, NoValue))}

\* repo.tags
Tags(repo) ==
    IF repo = "/repos/a" THEN {<<"v1", "a2">>, <<"v2", "a4">>} ELSE {<<"v1", "b1">>}

\* git log --follow --format=%H <path>, split at line feeds ([''] when empty)
FileHistory(repo, path) == IF repo = "/repos/a" THEN <<"a4", "a1">> ELSE <<"">>

Reverse(s) == [k \in 1..Len(s) |-> s[Len(s) + 1 - k]]

\* get_list_commits: iter_commits(branch, reverse=reverse_order)
GetListCommits(repo, branch, reverse_order) ==
    IF reverse_order THEN Reverse(IterCommits(repo, branch)) ELSE IterCommits(repo, branch)

\* get_commit: the commit, when the repository has it
HasCommit(repo, id) == \E c \in AllCommits(repo) : c.hash = id

GetCommit(repo, id) == CHOOSE c \in AllCommits(repo) : c.hash = id

\* get_commit_from_tag
HasTag(repo, tag) == \E t \in Tags(repo) : t[1] = tag

TagTarget(repo, tag) == (CHOOSE t \in Tags(repo) : t[1] = tag)[2]

\* get_tagged_commits
GetTaggedCommits(repo) == {t[2] : t \in Tags(repo)}

\* ------------------------------------------------------------------------
\* RepositoryMining: the filters
\* ------------------------------------------------------------------------
InList(x, l) == \E k \in 1..Len(l) : l[k] = x

\* _has_modification_with_file_type
HasModificationWithFileType(commit, types) ==
    \E k \in 1..Len(commit.filenames) :
        \E t \in 1..Len(types) : EndsWith(commit.filenames[k], types[t])

\* a commit dated exactly at `since` is dropped
IsCommitFilteredAtSince(self, args, commit) ==
    \/ args.single # NoValue /\ commit.hash # args.single
    \/ self.since # <<>> /\ Instant(commit.committer_date) <= Instant(self.since[1])
    \/ self.to # <<>> /\ Instant(commit.committer_date) > Instant(self.to[1])
    \/ args.only_modifications_with_file_types.some
         /\ ~HasModificationWithFileType(commit, args.only_modifications_with_file_types.v)
    \/ args.only_no_merge /\ commit.merge
    \/ args.only_authors.some /\ ~InList(commit.author, args.only_authors.v)
    \/ args.only_commits.some /\ ~InList(commit.hash, args.only_commits.v)
    \/ self.filepath_commits.some /\ ~InList(commit.hash, self.filepath_commits.v)
    \/ self.tagged_commits # {NoValue} /\ commit.hash \notin self.tagged_commits

\* a commit dated exactly at `to` is dropped
DateFilteredAtTo(self, commit) ==
    \/ self.since # <<>> /\ Instant(commit.committer_date) < Instant(self.since[1])
    \/ self.to # <<>> /\ Instant(commit.committer_date) >= Instant(self.to[1])

\* _is_commit_filtered: the comparison with self._since and self._to
DateFiltered(self, commit) ==
    \/ self.since # <<>> /\ Instant(commit.committer_date) < Instant(self.since[1])
    \/ self.to # <<>> /\ Instant(commit.committer_date) > Instant(self.to[1])

\* _is_commit_filtered (self: the fields the traversal assigns, args: the others)
IsCommitFiltered(self, args, commit) ==
    \/ args.single # NoValue /\ commit.hash # args.single
    \/ DateFiltered(self, commit)
    \/ args.only_modifications_with_file_types.some
         /\ ~HasModificationWithFileType(commit, args.only_modifications_with_file_types.v)
    \/ args.only_no_merge /\ commit.merge
    \/ args.only_authors.some /\ ~InList(commit.author, args.only_authors.v)
    \/ args.only_commits.some /\ ~InList(commit.hash, args.only_commits.v)
    \/ self.filepath_commits.some /\ ~InList(commit.hash, self.filepath_commits.v)
    \/ self.tagged_commits # {NoValue} /\ commit.hash \notin self.tagged_commits

\* only_one_filter, given how many of the three are not None
OnlyOneFilter(n) == n <= 1

Given(b) == IF b THEN 1 ELSE 0

\* the first lines of _sanity_check_filters: `single` with any range filter
SingleWithOthers(self, args) ==
    /\ args.single # NoValue
    /\ \/ self.since # <<>> \/ self.to # <<>>
       \/ args.from_commit # NoValue \/ args.to_commit # NoValue
       \/ args.from_tag # NoValue \/ args.to_tag # NoValue

Raise(st, exc) == [st EXCEPT !.err = exc]

\* a boundary named by a commit: get_commit(id).committer_date
ResolveCommit(st, id, repo, field) ==
    IF st.err # "none" \/ id = NoValue THEN st
    ELSE IF ~HasCommit(repo, id) THEN Raise(st, "ResolutionError")
    ELSE [st EXCEPT ![field] = <<GetCommit(repo, id).committer_date>>, !.reads = @ + 1]

\* a boundary named by a tag: get_commit_from_tag(tag).committer_date
ResolveTag(st, tag, repo, field) ==
    IF st.err # "none" \/ tag = NoValue THEN st
    ELSE IF ~HasTag(repo, tag) THEN Raise(st, "ResolutionError")
    ELSE [st EXCEPT ![field] = <<GetCommit(repo, TagTarget(repo, tag)).committer_date>>,
                    !.reads = @ + 1]

\* _check_starting_commit
CheckStartingCommit(st, args, repo) ==
    IF st.err # "none" THEN st
    ELSE IF ~OnlyOneFilter(Given(st.since # <<>>) + Given(args.from_tag # NoValue)
                           + Given(args.from_commit # NoValue))
    THEN Raise(st, "ConfigError")
    ELSE ResolveTag(ResolveCommit(st, args.from_commit, repo, "since"),
                    args.from_tag, repo, "since")

\* _check_ending_commit
CheckEndingCommit(st, args, repo) ==
    IF st.err # "none" THEN st
    ELSE IF ~OnlyOneFilter(Given(st.to # <<>>) + Given(args.to_commit # NoValue)
                           + Given(args.to_tag # NoValue))
    THEN Raise(st, "ConfigError")
    ELSE ResolveTag(ResolveCommit(st, args.to_commit, repo, "to"), args.to_tag, repo, "to")

\* _sanity_check_filters
SanityCheckFilters(st, args, repo) ==
    IF SingleWithOthers(st, args) THEN Raise(st, "ConfigError")
    ELSE CheckEndingCommit(CheckStartingCommit(st, args, repo), args, repo)

\* _check_timezones
CheckTimezones(st) ==
    IF st.err # "none" THEN st
    ELSE [st EXCEPT !.since = IF @ = <<>> THEN @ ELSE <<ReplaceTimezone(@[1])>>,
                    !.to = IF @ = <<>> THEN @ ELSE <<ReplaceTimezone(@[1])>>]

\* the two lists computed before the enumeration: the commits that touched
\* `filepath`, the tagged commits ({NoValue}: the field is None)
ComputeLists(st, args, repo) ==
    IF st.err # "none" THEN st
    ELSE [st EXCEPT
            !.filepath_commits =
                IF args.filepath # NoValue THEN SomeList(FileHistory(repo, args.filepath))
                ELSE @,
            !.tagged_commits = IF args.only_releases THEN GetTaggedCommits(repo) ELSE @]

\* the body of `for path_repo in self._path_to_repo` down to the enumeration
OpenRepository(self, args, repo) ==
    ComputeLists(
        CheckTimezones(
            SanityCheckFilters(
                [since |-> self.since, to |-> self.to,
                 filepath_commits |-> self.filepath_commits,
                 tagged_commits |-> self.tagged_commits, err |-> "none", reads |-> 0],
                args, repo)),
        args, repo)

\* ------------------------------------------------------------------------
\* The arguments of RepositoryMining(...)
\* ------------------------------------------------------------------------
MaxRepos == 2       \* repository locations in path_to_repo

MaxFilters == 3     \* arguments given a value other than their default

RepoLists == SeqsUpTo(Repos, MaxRepos) \ {<<>>}

FilterArgs ==
    [ single : {NoValue, "a2"},
      since : {<<>>, <<Naive(2)>>, <<Aware(4, 1)>>},
      to : {<<>>, <<Naive(3)>>, <<Aware(3, 1)>>},
      from_commit : {NoValue, "a2", "a4"},
      to_commit : {NoValue, "a3"},
      from_tag : {NoValue, "v1"},
      to_tag : {NoValue, "v2"},
      reversed_order : BOOLEAN,
      only_in_branch : {NoValue, "dev"},
      only_modifications_with_file_types : {NoList, SomeList(<<<<".", "p", "y">>>>)},
      only_no_merge : BOOLEAN,
      only_authors : {NoList, SomeList(<<"alice", "carol">>)},
      only_commits : {NoList, SomeList(<<"a1", "a3", "b2">>)},
      only_releases : BOOLEAN,
      filepath : {NoValue, "m.py"} ]

GivenCount(f) ==
    Given(f.single # NoValue) + Given(f.since # <<>>) + Given(f.to # <<>>)
    + Given(f.from_commit # NoValue) + Given(f.to_commit # NoValue)
    + Given(f.from_tag # NoValue) + Given(f.to_tag # NoValue)
    + Given(f.reversed_order) + Given(f.only_in_branch # NoValue)
    + Given(f.only_modifications_with_file_types.some) + Given(f.only_no_merge)
    + Given(f.only_authors.some) + Given(f.only_commits.some)
    + Given(f.only_releases) + Given(f.filepath # NoValue)

Init ==
    /\ DiffIdle /\ AttrIdle /\ LockIdle
    /\ m_paths \in RepoLists
    /\ m_args \in {f \in FilterArgs : GivenCount(f) <= MaxFilters}
    /\ m_self = SelfOf(m_args)
    /\ m_repo = 0 /\ m_pos = 0 /\ m_yielded = <<>> /\ m_err = "none" /\ m_reads = 0
    /\ m_pc = "next_repo" /\ m_tmp_folder = {}

\* the enumeration of the repository the traversal is in
Enumeration ==
    GetListCommits(GitRepoPath(m_paths[m_repo]), m_args.only_in_branch,
                   ~m_args.reversed_order)

\* tmp_folder = tempfile.TemporaryDirectory() for a remote location: the
\* directory the name was bound to before is removed as the name is bound
\* again; for a local location the name keeps what it is bound to
BindTmpFolder(tmp_folder, paths, i) == IF IsRemote(paths[i]) THEN {i} ELSE tmp_folder

\* traverse_commits, from the head of the loop over the repositories to the
\* enumeration of the next one: the clone of a remote location, the checks,
\* the resolution of the boundaries, the time zones and the two lists. When
\* an exception leaves the generator its frame, and the clone with it, lasts
\* as long as the traceback does.
OpenRepo ==
    /\ m_pc = "next_repo"
    /\ m_repo < Len(m_paths)
    /\ LET st == OpenRepository(m_self, m_args, GitRepoPath(m_paths[m_repo + 1]))
       IN  /\ m_self' = [since |-> st.since, to |-> st.to,
                         filepath_commits |-> st.filepath_commits,
                         tagged_commits |-> st.tagged_commits]
           /\ m_err' = st.err
           /\ m_reads' = m_reads + st.reads
           /\ m_pc' = IF st.err # "none" THEN "raised" ELSE "stream"
           /\ \E kept \in BOOLEAN :
                 m_tmp_folder' = IF st.err # "none" /\ ~kept THEN {}
                                 ELSE BindTmpFolder(m_tmp_folder, m_paths, m_repo + 1)
    /\ m_repo' = m_repo + 1
    /\ m_pos' = 0
    /\ UNCHANGED <<m_paths, m_args, m_yielded, dvars, avars, kvars>>

\* one iteration of the loop over the commits: the commit is read, then
\* skipped when filtered and yielded otherwise
NextCommit ==
    /\ m_pc = "stream"
    /\ m_pos < Len(Enumeration)
    /\ m_pos' = m_pos + 1
    /\ m_reads' = m_reads + 1
    /\ m_yielded' = IF IsCommitFiltered(m_self, m_args, Enumeration[m_pos + 1])
                    THEN m_yielded
                    ELSE Append(m_yielded, <<m_repo, Enumeration[m_pos + 1].hash>>)
    /\ UNCHANGED <<m_paths, m_args, m_self, m_repo, m_err, m_pc, m_tmp_folder, dvars,
                   avars, kvars>>

\* the enumeration of the repository is exhausted
EndRepo ==
    /\ m_pc = "stream"
    /\ m_pos = Len(Enumeration)
    /\ m_pc' = "next_repo"
    /\ UNCHANGED <<m_paths, m_args, m_self, m_repo, m_pos, m_yielded, m_err, m_reads,
                   m_tmp_folder, dvars, avars, kvars>>

\* the list of repositories is exhausted: the generator ends, its frame is
\* released and the TemporaryDirectory still bound is removed
Finish ==
    /\ m_pc = "next_repo"
    /\ m_repo = Len(m_paths)
    /\ m_pc' = "done"
    /\ m_tmp_folder' = {}
    /\ UNCHANGED <<m_paths, m_args, m_self, m_repo, m_pos, m_yielded, m_err, m_reads,
                   dvars, avars, kvars>>

\* the generator is suspended at `yield commit`
AtYield ==
    /\ m_pc = "stream"
    /\ m_pos >= 1
    /\ ~IsCommitFiltered(m_self, m_args, Enumeration[m_pos])

\* the consumer drops the generator it has partly consumed: the generator is
\* closed at its yield, its frame is released and the TemporaryDirectory
\* still bound is removed
Abandon ==
    /\ AtYield
    /\ m_pc' = "abandoned"
    /\ m_tmp_folder' = {}
    /\ UNCHANGED <<m_paths, m_args, m_self, m_repo, m_pos, m_yielded, m_err, m_reads,
                   dvars, avars, kvars>>

Next == OpenRepo \/ NextCommit \/ EndRepo \/ Finish \/ Abandon

Spec == Init /\ [][Next]_vars

\* ------------------------------------------------------------------------
\* Traversal: what the claims are stated with
\* ------------------------------------------------------------------------
Hashes(stream) == [k \in 1..Len(stream) |-> stream[k][2]]

CommitHashes(commits) == [k \in 1..Len(commits) |-> commits[k].hash]

\* the part of the stream yielded while the loop was in the i-th repository
Segment(i) == Hashes(SelectSeq(m_yielded, LAMBDA y : y[1] = i))

\* more than one start boundary, more than one end boundary, or `single`
\* together with a range filter, in the arguments as given
ViolatesExclusivity(args) ==
    \/ Given(args.since # <<>>) + Given(args.from_tag # NoValue)
         + Given(args.from_commit # NoValue) > 1
    \/ Given(args.to # <<>>) + Given(args.to_tag # NoValue)
         + Given(args.to_commit # NoValue) > 1
    \/ /\ args.single # NoValue
       /\ \/ args.since # <<>> \/ args.to # <<>>
          \/ args.from_commit # NoValue \/ args.to_commit # NoValue
          \/ args.from_tag # NoValue \/ args.to_tag # NoValue

\* ------------------------------------------------------------------------
\* C1: an error leaves the traversal before anything is yielded
\* ------------------------------------------------------------------------
\* C1 as stated: at the moment a configuration or resolution error is raised
\* no commit has been yielded, for any number of repository locations and any
\* filter configuration.
C1_NothingYieldedBeforeError ==
    m_pc = "raised" => m_yielded = <<>>

\* ------------------------------------------------------------------------
\* C2: the exclusivity rules
\* ------------------------------------------------------------------------
\* C2 as stated: arguments that break an exclusivity rule make the traversal
\* raise a configuration error before any commit is read from the repository,
\* and arguments that satisfy the rules never raise that error.
C2_ExclusivityValidated ==
    /\ (ViolatesExclusivity(m_args) /\ m_repo >= 1) =>
          (m_pc = "raised" /\ m_err = "ConfigError" /\ m_reads = 0)
    /\ ~ViolatesExclusivity(m_args) => m_err # "ConfigError"

\* ------------------------------------------------------------------------
\* C3: the repositories of a list are traversed independently
\* ------------------------------------------------------------------------
\* a traversal over [repo] alone, with the arguments as given
TraverseAlone(args, repo, st) ==
    [err |-> st.err,
     stream |-> IF st.err # "none" THEN <<>>
                ELSE CommitHashes(SelectSeq(
                         GetListCommits(repo, args.only_in_branch, ~args.reversed_order),
                         LAMBDA c : ~IsCommitFiltered(st, args, c)))]

\* the separate traversals one after the other, up to the first that raises
RECURSIVE Separately(_, _)
Separately(args, paths) ==
    IF paths = <<>> THEN [err |-> "none", stream |-> <<>>]
    ELSE LET h == TraverseAlone(args, Head(paths),
                                OpenRepository(SelfOf(args), args, Head(paths)))
         IN  IF h.err # "none" THEN h
             ELSE [err |-> Separately(args, Tail(paths)).err,
                   stream |-> h.stream \o Separately(args, Tail(paths)).stream]

\* C3 as stated: for valid arguments, one traversal over [r1, ..., rn] ends as
\* the separate traversals over [r1], ..., [rn] end: with the concatenation of
\* their streams, and raising only where one of them raises.
C3_RepositoriesIndependent ==
    (~ViolatesExclusivity(m_args) /\ m_pc \in {"done", "raised"}) =>
        /\ Hashes(m_yielded) = Separately(m_args, m_paths).stream
        /\ m_err = Separately(m_args, m_paths).err

\* ------------------------------------------------------------------------
\* C4: the stream of one repository
\* ------------------------------------------------------------------------
\* a naive datetime is read as UTC
UtcInstant(dt) == IF dt.tz = {} THEN dt.wall ELSE Instant(dt)

\* the lower date bound in a repository: `since`, or the committer date of
\* from_commit or of the commit from_tag names ({}: no bound)
LowerBound(args, repo) ==
    IF args.since # <<>> THEN {UtcInstant(args.since[1])}
    ELSE IF args.from_commit # NoValue
    THEN {Instant(GetCommit(repo, args.from_commit).committer_date)}
    ELSE IF args.from_tag # NoValue
    THEN {Instant(GetCommit(repo, TagTarget(repo, args.from_tag)).committer_date)}
    ELSE {}

UpperBound(args, repo) ==
    IF args.to # <<>> THEN {UtcInstant(args.to[1])}
    ELSE IF args.to_commit # NoValue
    THEN {Instant(GetCommit(repo, args.to_commit).committer_date)}
    ELSE IF args.to_tag # NoValue
    THEN {Instant(GetCommit(repo, TagTarget(repo, args.to_tag)).committer_date)}
    ELSE {}

\* the commit satisfies every active filter
Satisfies(args, repo, c) ==
    /\ args.single # NoValue => c.hash = args.single
    /\ \A b \in LowerBound(args, repo) : Instant(c.committer_date) >= b
    /\ \A b \in UpperBound(args, repo) : Instant(c.committer_date) <= b
    /\ args.only_modifications_with_file_types.some =>
          \E k \in 1..Len(c.filenames) :
              \E t \in 1..Len(args.only_modifications_with_file_types.v) :
                  EndsWith(c.filenames[k], args.only_modifications_with_file_types.v[t])
    /\ args.only_no_merge => ~c.merge
    /\ args.only_authors.some => InList(c.author, args.only_authors.v)
    /\ args.only_commits.some => InList(c.hash, args.only_commits.v)
    /\ args.filepath # NoValue => InList(c.hash, FileHistory(repo, args.filepath))
    /\ args.only_releases => c.hash \in GetTaggedCommits(repo)

\* the history of the branch in the requested order: oldest first, newest
\* first when reversed_order is set
RequestedOrder(args, repo) ==
    IF args.reversed_order THEN IterCommits(repo, args.only_in_branch)
    ELSE Reverse(IterCommits(repo, args.only_in_branch))

\* how much of the i-th repository's history the loop has been through
Through(i) ==
    IF i = m_repo /\ m_pc \in {"stream", "abandoned"} THEN m_pos
    ELSE IF i = m_repo /\ m_pc = "raised" THEN 0
    ELSE Len(RequestedOrder(m_args, m_paths[i]))

NoDuplicates(s) == \A j, k \in 1..Len(s) : s[j] = s[k] => j = k

\* C4: what has been yielded in a repository is exactly the commits that
\* satisfy every active filter among the commits enumerated so far, in the
\* requested order of the history and each once; the stream of the traversal
\* is these segments in the order of the list.
C4_StreamIsFilteredEnumeration ==
    /\ \A i \in 1..m_repo :
        /\ Segment(i) =
             CommitHashes(SelectSeq(SubSeq(RequestedOrder(m_args, m_paths[i]), 1, Through(i)),
                               LAMBDA c : Satisfies(m_args, m_paths[i], c)))
        /\ NoDuplicates(Segment(i))
    /\ \A j, k \in 1..Len(m_yielded) : j <= k => m_yielded[j][1] <= m_yielded[k][1]

\* a finished traversal of two repositories with a date bound and the merge
\* filter: the commit dated at the bound is yielded, the merge is not
C4_Witness ==
    /\ m_pc = "done"
    /\ m_paths = <<"/repos/a", "/repos/b">>
    /\ m_args.since = <<Naive(2)>>
    /\ m_args.only_no_merge
    /\ Hashes(m_yielded) = <<"a2", "a4", "b1", "b2">>



\* ------------------------------------------------------------------------
\* C12: the lifetime of the clone of a remote location
\* ------------------------------------------------------------------------
\* C12 as stated: the clone of a remote location exists during the whole
\* traversal of that location; it has been discarded before the first commit
\* of the next location is yielded, and once the traversal has ended; an
\* abandoned traversal leaves no clone.
C12_CloneScopedToSegment ==
    /\ (m_pc = "stream" /\ IsRemote(m_paths[m_repo])) => m_repo \in m_tmp_folder
    /\ \A i \in m_tmp_folder : \A k \in 1..Len(m_yielded) : m_yielded[k][1] <= i
    /\ m_pc \in {"done", "abandoned"} => m_tmp_folder = {}


\* ------------------------------------------------------------------------
\* C13: naive boundaries are read as UTC
\* ------------------------------------------------------------------------
\* traverse_commits as a function of the arguments and of the list of
\* locations: the stream, and the exception that ended it
RECURSIVE Traverse(_, _, _)
Traverse(self, args, paths) ==
    IF paths = <<>> THEN [err |-> "none", stream |-> <<>>]
    ELSE LET st == OpenRepository(self, args, GitRepoPath(Head(paths)))
         IN  IF st.err # "none" THEN [err |-> st.err, stream |-> <<>>]
             ELSE [err |-> Traverse(st, args, Tail(paths)).err,
                   stream |-> TraverseAlone(args, GitRepoPath(Head(paths)), st).stream
                              \o Traverse(st, args, Tail(paths)).stream]

\* a naive timestamp given as the same wall clock localized to UTC
UtcLocalized(d) == IF d # <<>> /\ d[1].tz = {} THEN <<Aware(d[1].wall, 0)>> ELSE d

\* the arguments with naive since and to given UTC-localized instead
Localized(args) ==
    [args EXCEPT !.since = UtcLocalized(@), !.to = UtcLocalized(@)]

IsPrefix(s, t) == Len(s) <= Len(t) /\ SubSeq(t, 1, Len(s)) = s

\* C13: while commits are compared, every date boundary is timezone-aware and
\* a boundary given timezone-aware is the one given; what a traversal with
\* naive since or to yields, and how it ends, is what the traversal with the
\* same timestamps given UTC-localized yields and how it ends.
C13_NaiveBoundaryIsUtc ==
    /\ m_pc = "stream" =>
         /\ \A k \in 1..Len(m_self.since) : m_self.since[k].tz # {}
         /\ \A k \in 1..Len(m_self.to) : m_self.to[k].tz # {}
         /\ (m_args.since # <<>> /\ m_args.since[1].tz # {}) => m_self.since = m_args.since
         /\ (m_args.to # <<>> /\ m_args.to[1].tz # {}) => m_self.to = m_args.to
    /\ m_pc # "idle" =>
         IsPrefix(Hashes(m_yielded),
                  Traverse(SelfOf(Localized(m_args)), Localized(m_args), m_paths).stream)
    /\ m_pc \in {"done", "raised"} =>
         /\ Hashes(m_yielded)
              = Traverse(SelfOf(Localized(m_args)), Localized(m_args), m_paths).stream
         /\ m_err = Traverse(SelfOf(Localized(m_args)), Localized(m_args), m_paths).err

\* a finished traversal with a naive `since` and a `to` with an offset: the
\* commit dated at the UTC reading of `since` is yielded, the one before is not
C13_Witness ==
    /\ m_pc = "done"
    /\ m_paths = <<"/repos/a">>
    /\ m_args.since = <<Naive(2)>>
    /\ m_args.to = <<Aware(3, 1)>>
    /\ m_self.since = <<Aware(2, 0)>>
    /\ m_self.to = <<Aware(3, 1)>>
    /\ Hashes(m_yielded) = <<"a2">>


\* ------------------------------------------------------------------------
\* C14: boundaries given as commits or tags
\* ------------------------------------------------------------------------
\* the committer date of the commit a boundary names ({}: none is named)
NamedDate(repo, commit_id, tag) ==
    IF commit_id # NoValue THEN {GetCommit(repo, commit_id).committer_date}
    ELSE IF tag # NoValue THEN {GetCommit(repo, TagTarget(repo, tag)).committer_date}
    ELSE {}

\* the commit is within the bounds, both included
WithinBounds(args, repo, c) ==
    /\ \A b \in LowerBound(args, repo) : b <= Instant(c.committer_date)
    /\ \A b \in UpperBound(args, repo) : Instant(c.committer_date) <= b

\* the repository the traversal is in
CurrentRepo == GitRepoPath(m_paths[m_repo])

HunkNumbers(h, rec, start, counted) ==
    LET idx == SelectSeq([k \in 1..Len(h.body) |-> k], LAMBDA k : h.body[k].kind = rec)
    IN  [n \in 1..Len(idx) |->
            <<start + CountKind(SubSeq(h.body, 1, idx[n] - 1), counted),
              RStrip(h.body[idx[n]].text)>>]

RECURSIVE ExpectedDeleted(_)
ExpectedDeleted(hs) ==
    IF hs = <<>> THEN <<>>
    ELSE HunkNumbers(Head(hs), "del", Head(hs).old, {"ctx", "del"}) \o ExpectedDeleted(Tail(hs))

RECURSIVE ExpectedAdded(_)
ExpectedAdded(hs) ==
    IF hs = <<>> THEN <<>>
    ELSE HunkNumbers(Head(hs), "add", Head(hs).new, {"ctx", "add"}) \o ExpectedAdded(Tail(hs))

\* C5: for a well-formed diff parse_diff raises nothing and returns, in
\* `deleted`, exactly the '-' lines, each numbered old start of its hunk plus
\* the context and '-' lines before it in that hunk, and in `added` exactly the
\* '+' lines numbered likewise from the new start; the counters restart at each
\* hunk header, context lines and the no-newline marker are recorded nowhere and
\* the marker shifts nothing; the empty diff gives two empty lists.
C5_ParseDiffNumbering ==
    /\ d_pc # "raised"
    /\ d_pc = "done" =>
        /\ d_st.deleted = ExpectedDeleted(d_src)
        /\ d_st.added = ExpectedAdded(d_src)
        /\ (d_text = <<>> => d_st.deleted = <<>> /\ d_st.added = <<>>)

\* a parsed two-hunk diff whose first hunk has a no-newline marker before a
\* later '-' line and a later '+' line
C5_Witness ==
    /\ d_pc = "done"
    /\ Len(d_src) = 2
    /\ Len(d_src[1].body) = 3
    /\ d_src[1].body[1].kind = "nonl"
    /\ d_src[1].body[2].kind = "del"
    /\ d_src[1].body[3].kind = "add"
    /\ Len(d_st.deleted) >= 2
    /\ Len(d_st.added) >= 2

\* ------------------------------------------------------------------------
\* Attribution as a function of the modifications consumed and of what the
\* blame provider answered to each, for the claims that compare two runs
\* ------------------------------------------------------------------------
AttrStart == [commits |-> EmptyMap, err |-> "none", stored |-> {}]

RECURSIVE CalcLast(_, _, _)
CalcLast(acc, mods, outs) ==
    IF mods = <<>> \/ acc.err # "none" THEN acc
    ELSE CalcLast(ModStep(acc.commits, Head(mods), Head(outs)), Tail(mods), Tail(outs))

Consumed == [k \in 1..a_i |-> k]

\* the call sent a blame request for the k-th modification it consumed
Asked(k) == a_log[k].kind # "none"

\* ------------------------------------------------------------------------
\* C6: which blame is selected
\* ------------------------------------------------------------------------
\* C6 as stated: the ignore-aware blame is requested only when the hyper_blame
\* flag is set and the list of hashes to ignore is not empty; otherwise the
\* ordinary blame of the parent is requested.
C6_HyperBlameNeedsIgnoreList ==
    \A k \in 1..a_i :
        Asked(k) =>
            (a_log[k].kind = "hyper_blame" <=> (a_in.hyper_blame /\ a_ignore.v # <<>>))

\* C6 amended: through get_commits_last_modified_lines the ignore-aware blame
\* is requested exactly when the hyper_blame flag is set, with whatever list
\* was read (the empty one when no path is given or the file has no entry);
\* the ordinary blame of the parent is requested exactly when the flag is not set.
C6_HyperBlameByFlag ==
    \A k \in 1..a_i :
        Asked(k) =>
            /\ a_log[k].kind = (IF a_in.hyper_blame THEN "hyper_blame" ELSE "blame")
            /\ a_log[k].rev = <<a_in.commit, "^">>
            /\ a_log[k].kind = "hyper_blame" => a_log[k].ignore = a_ignore.v

\* the ignore-aware blame was requested although no hashes_to_ignore_path was given
C6_Witness ==
    /\ a_i >= 1
    /\ a_in.hyper_blame
    /\ a_in.hashes_to_ignore_path = NoValue
    /\ a_log[1].kind = "hyper_blame"
    /\ a_log[1].ignore = <<>>

\* ------------------------------------------------------------------------
\* C7: what makes an attribution call raise
\* ------------------------------------------------------------------------
AllDigits(t) == t # <<>> /\ \A k \in 1..Len(t) : IsDigit(t[k])

\* a range field of a hunk header: the sign, the line number, then ",count" or nothing
LineField(f, sign) == f # <<>> /\ Head(f) = sign /\ AllDigits(Split(Tail(f), ",")[1])

HeaderHasLineFields(line) ==
    /\ Len(Split(line, " ")) >= 3
    /\ LineField(Split(line, " ")[2], "-")
    /\ LineField(Split(line, " ")[3], "+")

MalformedDiff(diff) ==
    \E k \in 1..Len(Split(diff, "\n")) :
        /\ StartsWith(Split(diff, "\n")[k], <<"@", "@">>)
        /\ ~HeaderHasLineFields(RStrip(Split(diff, "\n")[k]))

\* C7 as stated: the call raises only when the diff of a modification it
\* analysed has a hunk header with a missing or non-numeric line field, and it
\* raises whenever it analysed such a diff; whatever the blame provider returns
\* or fails with, well-formed diffs give a returned map.
C7_AbortsOnlyOnMalformedDiff ==
    /\ a_pc = "raised" => \E k \in 1..a_i : MalformedDiff(a_mods[k].diff)
    /\ a_pc \in {"loop", "done"} => \A k \in 1..a_i : ~MalformedDiff(a_mods[k].diff)

\* ------------------------------------------------------------------------
\* C8: a blame lookup that fails is isolated
\* ------------------------------------------------------------------------
BlameFailed(k) == a_out[k].exc = "GitCommandError"

KeptIndexes == SelectSeq(Consumed, LAMBDA k : ~BlameFailed(k))

WithoutFailed ==
    CalcLast(AttrStart, [n \in 1..Len(KeptIndexes) |-> a_mods[KeptIndexes[n]]],
             [n \in 1..Len(KeptIndexes) |-> a_out[KeptIndexes[n]]])

\* C8: a modification whose blame lookup fails because the file is not found
\* at the parent raises nothing and stores nothing, and the call ends as the
\* call over the modifications without it ends: with the same map, every other
\* modification contributing as if the failed one were absent.
C8_FailedBlameIsolated ==
    /\ \A k \in 1..a_i : BlameFailed(k) => a_stored[k] = {}
    /\ (a_i >= 1 /\ BlameFailed(a_i)) => a_err = "none"
    /\ a_commits = WithoutFailed.commits
    /\ a_err = WithoutFailed.err

\* a returned map to which a modification contributed after the blame of the
\* modification before it had failed
C8_Witness ==
    /\ a_pc = "done"
    /\ a_i = 2
    /\ BlameFailed(1)
    /\ ~BlameFailed(2)
    /\ a_stored[2] # {}
    /\ a_mods[1].change_type = "MODIFY"

\* ------------------------------------------------------------------------
\* C9: the path blamed and the key stored under
\* ------------------------------------------------------------------------
\* C9: the blame is requested at the parent of the analysed commit, on the old
\* path for RENAME and DELETE and on the new path otherwise; what a RENAME
\* contributes is stored under its new path and never under its old path, a
\* DELETE under its old path, every other kind under its new path.
C9_BlamePathAndKey ==
    /\ \A k \in 1..a_i :
        /\ Asked(k) =>
            /\ a_log[k].rev = <<a_in.commit, "^">>
            /\ a_log[k].path =
                 (IF a_mods[k].change_type \in {"RENAME", "DELETE"}
                  THEN a_mods[k].old_path ELSE a_mods[k].new_path)
        /\ \A pr \in a_stored[k] :
            /\ pr[1] = (IF a_mods[k].change_type = "DELETE"
                        THEN a_mods[k].old_path ELSE a_mods[k].new_path)
            /\ a_mods[k].change_type = "RENAME" => pr[1] # a_mods[k].old_path
    /\ DOMAIN a_commits = {pr[1] : pr \in UNION {a_stored[k] : k \in 1..a_i}}

\* a returned map with the contribution of a RENAME and of a DELETE
C9_Witness ==
    /\ a_pc = "done"
    /\ a_mods = <<ModRename, ModDelete>>
    /\ a_log[1].path = "old.py"
    /\ DOMAIN a_commits = {"new.py", "gone.py"}

\* ------------------------------------------------------------------------
\* C10: useless lines
\* ------------------------------------------------------------------------
CommentMarkers ==
    { <<"/", "/">>, <<"#">>, <<"/", "*">>, <<"*">>, <<"'", "'", "'">>, <<"\"", "\"", "\"">> }

\* the trimmed text is empty or starts with a comment marker
IsUselessText(text) ==
    Strip(text) = <<>> \/ \E m \in CommentMarkers : StartsWith(Strip(text), m)

UsefulLines(deleted) == SelectSeq(deleted, LAMBDA l : ~IsUselessText(l[2]))

\* the loop body over the useful deleted lines alone, none of them skipped
UsefulStepOn(commits, mod, parsed, useful, out) ==
    IF parsed.err # "none"
    THEN [commits |-> commits, err |-> parsed.err, stored |-> {}]
    ELSE ModStepOn(commits, mod, useful, [k \in 1..Len(useful) |-> FALSE], out)

UsefulStep(commits, mod, out) ==
    UsefulStepOn(commits, mod, ParseDiff(mod.diff), UsefulLines(ParseDiff(mod.diff).deleted),
                 out)

RECURSIVE CalcUseful(_, _, _)
CalcUseful(acc, mods, outs) ==
    IF mods = <<>> \/ acc.err # "none" THEN acc
    ELSE CalcUseful(UsefulStep(acc.commits, Head(mods), Head(outs)), Tail(mods), Tail(outs))

FromUsefulLines == CalcUseful(AttrStart, SubSeq(a_mods, 1, a_i), a_out)

AllUseless(parsed) ==
    /\ parsed.err = "none"
    /\ \A k \in 1..Len(parsed.deleted) : IsUselessText(parsed.deleted[k][2])

AllDeletedUseless(mod) == AllUseless(ParseDiff(mod.diff))

\* C10: a deleted line whose trimmed text is empty or starts with a comment
\* marker (two slashes, hash, slash-star, star, three single or three double
\* quotes) contributes nothing: the call ends as the attribution computed from
\* the other deleted lines alone ends, and a modification whose deleted lines
\* are all of that kind adds no key.
C10_UselessLinesExcluded ==
    /\ a_commits = FromUsefulLines.commits
    /\ a_err = FromUsefulLines.err
    /\ \A k \in 1..a_i : AllDeletedUseless(a_mods[k]) => a_stored[k] = {}

\* a returned map: the all-comment modification was blamed and added no key,
\* the DELETE contributed its one line of code and not its comment line
C10_Witness ==
    /\ a_pc = "done"
    /\ a_mods = <<ModUseless, ModDelete>>
    /\ a_out[1].exc = "none"
    /\ a_out[2].blame = BlameTable
    /\ a_commits = [p \in {"gone.py"} |-> {"h2000000"}]

\* ------------------------------------------------------------------------
\* GitRepository.checkout, reset and files called by threads on one handle
\* ------------------------------------------------------------------------
MaxThreads == 2     \* threads sharing the GitRepository

MaxCalls == 2       \* calls each thread makes

Threads == 1..MaxThreads

\* the hashes handed to checkout
CheckoutHashes == {"c1", "c2"}

\* the directories os.walk goes through outside .git, in order
WalkDirs == <<".", "./pkg">>

ThreadIdle == [pc |-> "idle", hash |-> NoValue, calls |-> 0, walked |-> 0]

InitLock ==
    /\ DiffIdle /\ AttrIdle /\ MiningIdle
    /\ k_th = [t \in Threads |-> ThreadIdle]
    /\ k_lock = 0
    /\ k_branch = MainBranch /\ k_tmp = FALSE /\ k_tree = MainBranch

Others == <<dvars, avars, mvars>>

\* a thread calls checkout(_hash): it comes to `with self.lock`
CallCheckout(t) ==
    /\ k_th[t].pc = "idle" /\ k_th[t].calls < MaxCalls
    /\ \E h \in CheckoutHashes :
         k_th' = [k_th EXCEPT ![t] = [pc |-> "checkout_lock", hash |-> h,
                                      calls |-> @.calls + 1, walked |-> 0]]
    /\ UNCHANGED <<k_lock, k_branch, k_tmp, k_tree, Others>>

\* a thread calls reset(): it comes to `with self.lock`
CallReset(t) ==
    /\ k_th[t].pc = "idle" /\ k_th[t].calls < MaxCalls
    /\ k_th' = [k_th EXCEPT ![t] = [pc |-> "reset_lock", hash |-> NoValue,
                                    calls |-> @.calls + 1, walked |-> 0]]
    /\ UNCHANGED <<k_lock, k_branch, k_tmp, k_tree, Others>>

\* a thread calls files(): no lock is taken, the walk starts
CallFiles(t) ==
    /\ k_th[t].pc = "idle" /\ k_th[t].calls < MaxCalls
    /\ k_th' = [k_th EXCEPT ![t] = [pc |-> "files_walk", hash |-> NoValue,
                                    calls |-> @.calls + 1, walked |-> 0]]
    /\ UNCHANGED <<k_lock, k_branch, k_tmp, k_tree, Others>>

\* `with self.lock` entered by checkout or reset: Lock.acquire()
Acquire(t) ==
    /\ k_th[t].pc \in {"checkout_lock", "reset_lock"}
    /\ k_lock = 0
    /\ k_lock' = t
    /\ k_th' = [k_th EXCEPT ![t].pc = IF @ = "checkout_lock" THEN "checkout_delete"
                                      ELSE "reset_checkout"]
    /\ UNCHANGED <<k_branch, k_tmp, k_tree, Others>>

\* _delete_tmp_branch: leave _PD for the main branch when on it, then delete
\* _PD (that it does not exist is caught)
DeleteTmpBranch(t) ==
    /\ k_th[t].pc \in {"checkout_delete", "reset_delete"}
    /\ k_branch' = IF k_branch = TmpBranch THEN MainBranch ELSE k_branch
    /\ k_tree' = IF k_branch = TmpBranch THEN MainBranch ELSE k_tree
    /\ k_tmp' = FALSE
    /\ k_th' = [k_th EXCEPT ![t].pc = IF @ = "checkout_delete" THEN "checkout_git"
                                      ELSE "idle"]
    /\ k_lock' = IF k_th[t].pc = "reset_delete" THEN 0 ELSE k_lock
    /\ UNCHANGED Others

\* checkout: git checkout -f _hash -b _PD, then the lock is released
CheckoutGit(t) ==
    /\ k_th[t].pc = "checkout_git"
    /\ k_branch' = TmpBranch
    /\ k_tmp' = TRUE
    /\ k_tree' = k_th[t].hash
    /\ k_lock' = 0
    /\ k_th' = [k_th EXCEPT ![t].pc = "idle"]
    /\ UNCHANGED Others

\* reset: git checkout -f <main branch>
ResetGit(t) ==
    /\ k_th[t].pc = "reset_checkout"
    /\ k_branch' = MainBranch
    /\ k_tree' = MainBranch
    /\ k_th' = [k_th EXCEPT ![t].pc = "reset_delete"]
    /\ UNCHANGED <<k_lock, k_tmp, Others>>

\* files: os.walk yields the next directory of the working tree
FilesWalk(t) ==
    /\ k_th[t].pc = "files_walk"
    /\ k_th[t].walked < Len(WalkDirs)
    /\ k_th' = [k_th EXCEPT ![t].walked = @ + 1]
    /\ UNCHANGED <<k_lock, k_branch, k_tmp, k_tree, Others>>

\* files: the walk is over, return _all
FilesReturn(t) ==
    /\ k_th[t].pc = "files_walk"
    /\ k_th[t].walked = Len(WalkDirs)
    /\ k_th' = [k_th EXCEPT ![t].pc = "idle"]
    /\ UNCHANGED <<k_lock, k_branch, k_tmp, k_tree, Others>>

NextLock ==
    \E t \in Threads :
        \/ CallCheckout(t) \/ CallReset(t) \/ CallFiles(t)
        \/ Acquire(t) \/ DeleteTmpBranch(t) \/ CheckoutGit(t) \/ ResetGit(t)
        \/ FilesWalk(t) \/ FilesReturn(t)

SpecLock == InitLock /\ [][NextLock]_vars

\* ------------------------------------------------------------------------
\* C11: the working tree under concurrent checkout, reset and files
\* ------------------------------------------------------------------------
\* the thread is between the acquisition and the release of the lock: its
\* checkout or reset is in flight
InFlight(t) ==
    k_th[t].pc \in {"checkout_delete", "checkout_git", "reset_checkout", "reset_delete"}

\* the thread is inside files(): its walk of the working tree is not over
Walking(t) == k_th[t].pc = "files_walk"

\* C11 as stated: under any interleaving of threads calling checkout, reset
\* and files on one handle, at most one checkout/reset is in flight at a time
\* and no files() walk overlaps a checkout or reset in flight.
C11_WorkingTreeExclusive ==
    /\ \A t, u \in Threads : (InFlight(t) /\ InFlight(u)) => t = u
    /\ \A t, u \in Threads : ~(Walking(t) /\ InFlight(u))


====
